---- MODULE Spec2Model ----
(***************************************************************************)
(* A model of the payfac-ledger engine (ledger.go, models.go): the         *)
(* in-memory Ledger struct, its four state-changing operations and the     *)
(* balance query.  Identifiers (transaction, merchant, processor-reference *)
(* and file ids, dates) are Go strings in the source; here they are small  *)
(* positive integers, and 0 stands for the empty string "".  Timestamps    *)
(* (CreatedAt) and the card number are never read by the engine and are    *)
(* left out of the records.                                                *)
(***************************************************************************)
EXTENDS Integers, Sequences, FiniteSets, TLC

\* ------------------------------------------------------------------ bounds
MaxTxn == 2
NumMerchants == 2
NumRefs == 2
MaxAmount == 1
NumDates == 2
NumFiles == 2
MaxRows == 2

EMPTY == 0

\* ------------------------------------------------------- models.go constants
AccountCardProcessor == "card_processor"
AccountPending == "pending"
AccountSettling == "settling"
AccountAvailable == "available"
AccountFunded == "funded"
AccountMerchantBank == "merchant_bank"

StatusPending == "pending"
StatusSettling == "settling"
StatusAvailable == "available"
StatusFunded == "funded"

Debit == "debit"
Credit == "credit"

\* ------------------------------------------------------------------ state
VARIABLES
    transactions,      \* map transaction_id -> Transaction
    refIndex,          \* map processor_ref_id -> transaction_id
    entries,           \* the entry log, a sequence of LedgerEntry
    nextEntryID,       \* the last journal id handed out
    processedFiles,    \* the keys of the processedFiles map (all map to true)
    settlementTotals,  \* map settlement_date -> expected total
    lastCall           \* the most recent call: its name, arguments and result

ledger == <<transactions, refIndex, entries, nextEntryID, processedFiles,
            settlementTotals>>
vars == <<transactions, refIndex, entries, nextEntryID, processedFiles,
          settlementTotals, lastCall>>

\* ------------------------------------------------------------------ inputs
\* The engine only ever compares identifiers and dates for equality (as map keys
\* or with == and !=), so a run is considered up to renaming: a name that the
\* ledger has not seen yet is always the least unused one.
LeastUnused(used, max) ==
    LET free == (1..max) \ used
    IN  IF free = {} THEN {} ELSE {CHOOSE x \in free : \A y \in free : x <= y}

UsedMerchants == {transactions[id].MerchantID : id \in DOMAIN transactions}

\* The transactions a caller may pass to RecordAuthorization: every valid one,
\* and one for each validation failure.
TransactionInputs ==
    [TransactionID : DOMAIN transactions \cup LeastUnused(DOMAIN transactions, MaxTxn),
     MerchantID : UsedMerchants \cup LeastUnused(UsedMerchants, NumMerchants),
     Amount : 1..MaxAmount,
     ProcessorRefID : DOMAIN refIndex \cup LeastUnused(DOMAIN refIndex, NumRefs)]
    \cup {[TransactionID |-> EMPTY, MerchantID |-> 1, Amount |-> 1, ProcessorRefID |-> 1],
          [TransactionID |-> 1, MerchantID |-> EMPTY, Amount |-> 1, ProcessorRefID |-> 1],
          [TransactionID |-> 1, MerchantID |-> 1, Amount |-> 0, ProcessorRefID |-> 1],
          [TransactionID |-> 1, MerchantID |-> 1, Amount |-> 1, ProcessorRefID |-> EMPTY]}

\* Settlement rows: a known processor reference or an unknown one, any amount
\* (zero included).  The row's merchant id is never read by the engine.
SettlementRow ==
    [ProcessorRefID : DOMAIN refIndex \cup LeastUnused(DOMAIN refIndex, NumRefs + 1),
     MerchantID : {1},
     Amount : 0..MaxAmount]
RowSeqs(maxLen) == UNION {[1..n -> SettlementRow] : n \in 0..maxLen}
FileDates ==
    DOMAIN settlementTotals \cup LeastUnused(DOMAIN settlementTotals, NumDates)
\* A file with a new id carries up to MaxRows rows; a file without an id or with
\* the id of a processed file carries at most one row.
SettlementFile ==
    [FileID : LeastUnused(processedFiles, NumFiles), Date : FileDates,
     Rows : RowSeqs(MaxRows)]
    \cup [FileID : {EMPTY} \cup processedFiles, Date : FileDates, Rows : RowSeqs(1)]
DepositAmounts == 0..(MaxRows * MaxAmount)
DepositDates == FileDates

\* Every order in which a Go range over a map with key set S may visit it.
Orders(S) ==
    {o \in [1..Cardinality(S) -> S] : \A i, j \in DOMAIN o : i # j => o[i] # o[j]}

NewLedger ==
    /\ transactions = <<>>
    /\ refIndex = <<>>
    /\ entries = <<>>
    /\ nextEntryID = 0
    /\ processedFiles = {}
    /\ settlementTotals = <<>>

Init ==
    /\ NewLedger
    /\ lastCall = [op |-> "NewLedger"]

\* In the loops below the state after one iteration is written
\* CHOOSE next \in {Step(s) : s \in {st}} : TRUE, which is Step(st) with st
\* evaluated once (an operator argument is evaluated anew at each of its uses).

\* ------------------------------------------------------------------ addEntry
\* Mutant: the journal counter is not advanced.
addEntry_SharedJournal(es, next, txnID, merchantID, debitAcct, creditAcct, amount, ref) ==
    LET journalID == next + 1 IN
    [entries |->
        es \o << [ID |-> journalID * 2 - 1, JournalID |-> journalID,
                  TransactionID |-> txnID, MerchantID |-> merchantID,
                  Account |-> debitAcct, EntryType |-> Debit,
                  Amount |-> amount, Reference |-> ref],
                 [ID |-> journalID * 2, JournalID |-> journalID,
                  TransactionID |-> txnID, MerchantID |-> merchantID,
                  Account |-> creditAcct, EntryType |-> Credit,
                  Amount |-> amount, Reference |-> ref] >>,
     nextEntryID |-> next]

\* Mutant: the credit entry is appended before the debit entry.
addEntry_CreditFirst(es, next, txnID, merchantID, debitAcct, creditAcct, amount, ref) ==
    LET journalID == next + 1 IN
    [entries |->
        es \o << [ID |-> journalID * 2, JournalID |-> journalID,
                  TransactionID |-> txnID, MerchantID |-> merchantID,
                  Account |-> creditAcct, EntryType |-> Credit,
                  Amount |-> amount, Reference |-> ref],
                 [ID |-> journalID * 2 - 1, JournalID |-> journalID,
                  TransactionID |-> txnID, MerchantID |-> merchantID,
                  Account |-> debitAcct, EntryType |-> Debit,
                  Amount |-> amount, Reference |-> ref] >>,
     nextEntryID |-> journalID]

\* The log and journal counter after one journal pair is appended to es.
addEntry(es, next, txnID, merchantID, debitAcct, creditAcct, amount, ref) ==
    LET journalID == next + 1 IN
    [entries |->
        es \o << [ID |-> journalID * 2 - 1, JournalID |-> journalID,
                  TransactionID |-> txnID, MerchantID |-> merchantID,
                  Account |-> debitAcct, EntryType |-> Debit,
                  Amount |-> amount, Reference |-> ref],
                 [ID |-> journalID * 2, JournalID |-> journalID,
                  TransactionID |-> txnID, MerchantID |-> merchantID,
                  Account |-> creditAcct, EntryType |-> Credit,
                  Amount |-> amount, Reference |-> ref] >>,
     nextEntryID |-> journalID]

\* ------------------------------------------------------- RecordAuthorization
\* Mutant: the check for an existing transaction id is missing.
AuthorizationError_NoDuplicateCheck(txn) ==
    IF txn.TransactionID = EMPTY THEN "transaction_id is required"
    ELSE IF txn.MerchantID = EMPTY THEN "merchant_id is required"
    ELSE IF txn.Amount <= 0 THEN "amount must be positive"
    ELSE IF txn.ProcessorRefID = EMPTY THEN "processor_reference_id is required"
    ELSE "nil"

AuthorizationError(txn) ==
    IF txn.TransactionID = EMPTY THEN "transaction_id is required"
    ELSE IF txn.MerchantID = EMPTY THEN "merchant_id is required"
    ELSE IF txn.Amount <= 0 THEN "amount must be positive"
    ELSE IF txn.ProcessorRefID = EMPTY THEN "processor_reference_id is required"
    ELSE IF txn.TransactionID \in DOMAIN transactions THEN "already exists"
    ELSE "nil"

RecordAuthorization(txn) ==
    LET err == AuthorizationError(txn)
        stored == [TransactionID |-> txn.TransactionID,
                   MerchantID |-> txn.MerchantID,
                   Amount |-> txn.Amount,
                   ProcessorRefID |-> txn.ProcessorRefID,
                   Status |-> StatusPending,
                   SettlementDate |-> EMPTY]
        log == addEntry(entries, nextEntryID, txn.TransactionID, txn.MerchantID,
                        AccountCardProcessor, AccountPending, txn.Amount,
                        "authorization")
    IN  /\ lastCall' = [op |-> "RecordAuthorization",
                        TransactionID |-> txn.TransactionID, err |-> err]
        /\ IF err # "nil"
           THEN UNCHANGED ledger
           ELSE /\ transactions' = (txn.TransactionID :> stored) @@ transactions
                /\ refIndex' = (txn.ProcessorRefID :> txn.TransactionID) @@ refIndex
                /\ entries' = log.entries
                /\ nextEntryID' = log.nextEntryID
                /\ UNCHANGED <<processedFiles, settlementTotals>>

\* ----------------------------------------------------- ProcessSettlementFile
EmptyResult ==
    [Matched |-> 0, Unmatched |-> 0, AlreadySettled |-> 0, UnmatchedRows |-> <<>>]

\* Mutant: the status of the matched transaction is not tested, every indexed
\* row settles its transaction.
SettleRow_NoStatusCheck(row, date, st) ==
    LET total == st.totalAmount + row.Amount IN
    IF row.ProcessorRefID \notin DOMAIN refIndex
    THEN [st EXCEPT !.totalAmount = total,
                    !.result.Unmatched = @ + 1,
                    !.result.UnmatchedRows = Append(@, row)]
    ELSE LET txnID == refIndex[row.ProcessorRefID]
             txn == st.transactions[txnID]
             log == addEntry(st.entries, st.nextEntryID,
                             txn.TransactionID, txn.MerchantID,
                             AccountPending, AccountSettling,
                             row.Amount, "settlement")
         IN  [st EXCEPT !.totalAmount = total,
                        !.transactions[txnID].Status = StatusSettling,
                        !.transactions[txnID].SettlementDate = date,
                        !.entries = log.entries,
                        !.nextEntryID = log.nextEntryID,
                        !.result.Matched = @ + 1]

\* Mutant: the running total is advanced for matched rows only.
SettleRow_MatchedOnlyTotal(row, date, st) ==
    IF row.ProcessorRefID \notin DOMAIN refIndex
    THEN [st EXCEPT !.result.Unmatched = @ + 1,
                    !.result.UnmatchedRows = Append(@, row)]
    ELSE LET txnID == refIndex[row.ProcessorRefID]
             txn == st.transactions[txnID]
         IN  IF txn.Status # StatusPending
             THEN [st EXCEPT !.result.AlreadySettled = @ + 1]
             ELSE LET log == addEntry(st.entries, st.nextEntryID,
                                      txn.TransactionID, txn.MerchantID,
                                      AccountPending, AccountSettling,
                                      row.Amount, "settlement")
                  IN  [st EXCEPT !.totalAmount = @ + row.Amount,
                                 !.transactions[txnID].Status = StatusSettling,
                                 !.transactions[txnID].SettlementDate = date,
                                 !.entries = log.entries,
                                 !.nextEntryID = log.nextEntryID,
                                 !.result.Matched = @ + 1]

\* One iteration of the row loop: st carries the registry, the log, the journal
\* counter, the result being built and the running total.
SettleRow(row, date, st) ==
    LET total == st.totalAmount + row.Amount IN
    IF row.ProcessorRefID \notin DOMAIN refIndex
    THEN [st EXCEPT !.totalAmount = total,
                    !.result.Unmatched = @ + 1,
                    !.result.UnmatchedRows = Append(@, row)]
    ELSE LET txnID == refIndex[row.ProcessorRefID]
             txn == st.transactions[txnID]
         IN  IF txn.Status # StatusPending
             THEN [st EXCEPT !.totalAmount = total,
                             !.result.AlreadySettled = @ + 1]
             ELSE LET log == addEntry(st.entries, st.nextEntryID,
                                      txn.TransactionID, txn.MerchantID,
                                      AccountPending, AccountSettling,
                                      row.Amount, "settlement")
                  IN  [st EXCEPT !.totalAmount = total,
                                 !.transactions[txnID].Status = StatusSettling,
                                 !.transactions[txnID].SettlementDate = date,
                                 !.entries = log.entries,
                                 !.nextEntryID = log.nextEntryID,
                                 !.result.Matched = @ + 1]

\* Mutant: the row loop breaks at the first unmatched row instead of continuing.
RECURSIVE SettleRows_StopAtUnmatched(_, _, _, _)
SettleRows_StopAtUnmatched(rows, i, date, st) ==
    IF i > Len(rows) THEN st
    ELSE IF rows[i].ProcessorRefID \notin DOMAIN refIndex
    THEN SettleRow(rows[i], date, st)
    ELSE SettleRows_StopAtUnmatched(rows, i + 1, date,
                    CHOOSE next \in {SettleRow(rows[i], date, s) : s \in {st}} : TRUE)

RECURSIVE SettleRows(_, _, _, _)
SettleRows(rows, i, date, st) ==
    IF i > Len(rows) THEN st
    ELSE SettleRows(rows, i + 1, date,
                    CHOOSE next \in {SettleRow(rows[i], date, s) : s \in {st}} : TRUE)

\* Mutant: no file id is ever recognised as processed.
AlreadyProcessed_Never(fileID) == FALSE

\* The idempotency check on the file id.
AlreadyProcessed(fileID) == fileID \in processedFiles

ProcessSettlementFile(file) ==
    IF file.FileID = EMPTY
    THEN /\ lastCall' = [op |-> "ProcessSettlementFile", FileID |-> file.FileID,
                         Date |-> file.Date, Rows |-> <<>>, processed |-> FALSE,
                         result |-> EmptyResult, err |-> "file_id is required"]
         /\ UNCHANGED ledger
    ELSE IF AlreadyProcessed(file.FileID)
    THEN /\ lastCall' = [op |-> "ProcessSettlementFile", FileID |-> file.FileID,
                         Date |-> file.Date, Rows |-> <<>>, processed |-> FALSE,
                         result |-> EmptyResult, err |-> "nil"]
         /\ UNCHANGED ledger
    ELSE \E st \in {SettleRows(file.Rows, 1, file.Date,
                                [transactions |-> transactions,
                                 entries |-> entries,
                                 nextEntryID |-> nextEntryID,
                                 result |-> EmptyResult,
                                 totalAmount |-> 0])} :
             /\ transactions' = st.transactions
             /\ entries' = st.entries
             /\ nextEntryID' = st.nextEntryID
             /\ processedFiles' = processedFiles \cup {file.FileID}
             /\ settlementTotals' =
                    (file.Date :> st.totalAmount) @@ settlementTotals
             /\ lastCall' = [op |-> "ProcessSettlementFile",
                             FileID |-> file.FileID, Date |-> file.Date,
                             Rows |-> file.Rows, processed |-> TRUE,
                             result |-> st.result, err |-> "nil"]
             /\ UNCHANGED refIndex

\* ------------------------------------------------------ ReconcileBankDeposit
\* Mutant: the status moves to Available but the journal pair is forgotten.
ReconcileTxn_NoEntry(txnID, settlementDate, st) ==
    LET txn == st.transactions[txnID] IN
    IF txn.Status = StatusSettling /\ txn.SettlementDate = settlementDate
    THEN [st EXCEPT !.transactions[txnID].Status = StatusAvailable]
    ELSE st

\* Mutant: the journal pair is appended but the status stays Settling.
ReconcileTxn_KeepsStatus(txnID, settlementDate, st) ==
    LET txn == st.transactions[txnID] IN
    IF txn.Status = StatusSettling /\ txn.SettlementDate = settlementDate
    THEN LET log == addEntry(st.entries, st.nextEntryID, txn.TransactionID,
                             txn.MerchantID, AccountSettling, AccountAvailable,
                             txn.Amount, "bank_reconciliation")
         IN  [st EXCEPT !.entries = log.entries,
                        !.nextEntryID = log.nextEntryID]
    ELSE st

\* Mutant: the status is not tested, every transaction settled for the date
\* is moved to Available.
ReconcileTxn_NoStatusCheck(txnID, settlementDate, st) ==
    LET txn == st.transactions[txnID] IN
    IF txn.SettlementDate = settlementDate
    THEN LET log == addEntry(st.entries, st.nextEntryID, txn.TransactionID,
                             txn.MerchantID, AccountSettling, AccountAvailable,
                             txn.Amount, "bank_reconciliation")
         IN  [st EXCEPT !.transactions[txnID].Status = StatusAvailable,
                        !.entries = log.entries,
                        !.nextEntryID = log.nextEntryID]
    ELSE st

\* Mutant: the settlement date is not compared, every Settling transaction moves.
ReconcileTxn_IgnoresDate(txnID, settlementDate, st) ==
    LET txn == st.transactions[txnID] IN
    IF txn.Status = StatusSettling
    THEN LET log == addEntry(st.entries, st.nextEntryID, txn.TransactionID,
                             txn.MerchantID, AccountSettling, AccountAvailable,
                             txn.Amount, "bank_reconciliation")
         IN  [st EXCEPT !.transactions[txnID].Status = StatusAvailable,
                        !.entries = log.entries,
                        !.nextEntryID = log.nextEntryID]
    ELSE st

\* One iteration of the range over l.transactions.
ReconcileTxn(txnID, settlementDate, st) ==
    LET txn == st.transactions[txnID] IN
    IF txn.Status = StatusSettling /\ txn.SettlementDate = settlementDate
    THEN LET log == addEntry(st.entries, st.nextEntryID, txn.TransactionID,
                             txn.MerchantID, AccountSettling, AccountAvailable,
                             txn.Amount, "bank_reconciliation")
         IN  [st EXCEPT !.transactions[txnID].Status = StatusAvailable,
                        !.entries = log.entries,
                        !.nextEntryID = log.nextEntryID]
    ELSE st

RECURSIVE ReconcileLoop(_, _, _, _)
ReconcileLoop(order, i, settlementDate, st) ==
    IF i > Len(order) THEN st
    ELSE ReconcileLoop(order, i + 1, settlementDate,
                       CHOOSE next \in {ReconcileTxn(order[i], settlementDate, s) :
                                        s \in {st}} : TRUE)

\* Mutant: only a deposit below the expected total is refused.
DepositMismatch_OnlyShortfall(amount, expected) == amount < expected

\* The comparison of the deposit with the expected total of the date.
DepositMismatch(amount, expected) == amount # expected

\* The call comes directly after a successful call with the same arguments.
Repeated(amount, settlementDate) ==
    /\ lastCall.op = "ReconcileBankDeposit"
    /\ lastCall.err = "nil"
    /\ lastCall.amount = amount
    /\ lastCall.settlementDate = settlementDate

\* Mutant: the second result of the map lookup is not tested, a date without a
\* recorded total reads as the zero value.
ReconcileBankDeposit_MissingTotalIsZero(amount, settlementDate, order) ==
    LET expected == IF settlementDate \in DOMAIN settlementTotals
                    THEN settlementTotals[settlementDate] ELSE 0
    IN
    IF DepositMismatch(amount, expected)
    THEN /\ lastCall' = [op |-> "ReconcileBankDeposit", amount |-> amount,
                         settlementDate |-> settlementDate,
                         repeat |-> Repeated(amount, settlementDate),
                         err |-> "deposit mismatch"]
         /\ UNCHANGED ledger
    ELSE \E st \in {ReconcileLoop(order, 1, settlementDate,
                                   [transactions |-> transactions,
                                    entries |-> entries,
                                    nextEntryID |-> nextEntryID])} :
             /\ transactions' = st.transactions
             /\ entries' = st.entries
             /\ nextEntryID' = st.nextEntryID
             /\ lastCall' = [op |-> "ReconcileBankDeposit", amount |-> amount,
                             settlementDate |-> settlementDate,
                             repeat |-> Repeated(amount, settlementDate),
                             err |-> "nil"]
             /\ UNCHANGED <<refIndex, processedFiles, settlementTotals>>

\* order is the order in which the range over the transactions map visits it.
\* The record of the call notes whether it repeats the call before it.
ReconcileBankDeposit(amount, settlementDate, order) ==
    IF settlementDate \notin DOMAIN settlementTotals
    THEN /\ lastCall' = [op |-> "ReconcileBankDeposit", amount |-> amount,
                         settlementDate |-> settlementDate,
                         repeat |-> Repeated(amount, settlementDate),
                         err |-> "no settlement found"]
         /\ UNCHANGED ledger
    ELSE IF DepositMismatch(amount, settlementTotals[settlementDate])
    THEN /\ lastCall' = [op |-> "ReconcileBankDeposit", amount |-> amount,
                         settlementDate |-> settlementDate,
                         repeat |-> Repeated(amount, settlementDate),
                         err |-> "deposit mismatch"]
         /\ UNCHANGED ledger
    ELSE \E st \in {ReconcileLoop(order, 1, settlementDate,
                                   [transactions |-> transactions,
                                    entries |-> entries,
                                    nextEntryID |-> nextEntryID])} :
             /\ transactions' = st.transactions
             /\ entries' = st.entries
             /\ nextEntryID' = st.nextEntryID
             /\ lastCall' = [op |-> "ReconcileBankDeposit", amount |-> amount,
                             settlementDate |-> settlementDate,
                             repeat |-> Repeated(amount, settlementDate),
                             err |-> "nil"]
             /\ UNCHANGED <<refIndex, processedFiles, settlementTotals>>

\* -------------------------------------------------------- ExecutePayoutBatch
RECURSIVE SumAmounts(_, _)
SumAmounts(txns, ids) ==
    IF ids = {} THEN 0
    ELSE LET id == CHOOSE x \in ids : TRUE
         IN  txns[id].Amount + SumAmounts(txns, ids \ {id})

\* The ids of merchant m's transactions whose status is status.
TxnsIn(txns, m, status) ==
    {id \in DOMAIN txns : txns[id].MerchantID = m /\ txns[id].Status = status}

\* Mutant: the first loop adds up every transaction of a merchant that has an
\* Available one, whatever its status.
AvailableByMerchant_AllStatuses(txns) ==
    LET ms == {txns[id].MerchantID : id \in {x \in DOMAIN txns :
                                             txns[x].Status = StatusAvailable}}
    IN  [m \in ms |-> SumAmounts(txns, {id \in DOMAIN txns : txns[id].MerchantID = m})]

\* The map built by the first loop: merchant -> sum of its Available amounts.
AvailableByMerchant(txns) ==
    LET ms == {txns[id].MerchantID : id \in {x \in DOMAIN txns :
                                             txns[x].Status = StatusAvailable}}
    IN  [m \in ms |-> SumAmounts(txns, TxnsIn(txns, m, StatusAvailable))]

\* Mutant: the status check is missing, every transaction of the merchant that
\* is not yet Funded is moved.
FundTxn_AnyStatus(txnID, merchantID, st) ==
    LET txn == st.transactions[txnID] IN
    IF txn.MerchantID = merchantID /\ txn.Status # StatusFunded
    THEN LET log == addEntry(st.entries, st.nextEntryID, txn.TransactionID,
                             txn.MerchantID, AccountAvailable, AccountFunded,
                             txn.Amount, "payout")
         IN  [st EXCEPT !.transactions[txnID].Status = StatusFunded,
                        !.entries = log.entries,
                        !.nextEntryID = log.nextEntryID]
    ELSE st

\* Mutant: the status moves to Funded but the journal pair is forgotten.
FundTxn_NoEntry(txnID, merchantID, st) ==
    LET txn == st.transactions[txnID] IN
    IF txn.MerchantID = merchantID /\ txn.Status = StatusAvailable
    THEN [st EXCEPT !.transactions[txnID].Status = StatusFunded]
    ELSE st

\* One iteration of the inner range over l.transactions after a successful payout.
FundTxn(txnID, merchantID, st) ==
    LET txn == st.transactions[txnID] IN
    IF txn.MerchantID = merchantID /\ txn.Status = StatusAvailable
    THEN LET log == addEntry(st.entries, st.nextEntryID, txn.TransactionID,
                             txn.MerchantID, AccountAvailable, AccountFunded,
                             txn.Amount, "payout")
         IN  [st EXCEPT !.transactions[txnID].Status = StatusFunded,
                        !.entries = log.entries,
                        !.nextEntryID = log.nextEntryID]
    ELSE st

RECURSIVE FundLoop(_, _, _, _)
FundLoop(torder, i, merchantID, st) ==
    IF i > Len(torder) THEN st
    ELSE FundLoop(torder, i + 1, merchantID,
                  CHOOSE next \in {FundTxn(torder[i], merchantID, s) : s \in {st}} : TRUE)

\* Mutant: the issuer's error is ignored, the merchant is funded anyway.
PayMerchant_IgnoresError(merchantID, amount, ok, torder, st) ==
    IF amount <= 0 THEN st
    ELSE LET call == [MerchantID |-> merchantID, Amount |-> amount,
                      err |-> IF merchantID \in ok THEN "nil" ELSE "error"]
             result == [MerchantID |-> merchantID, Amount |-> amount,
                        Success |-> merchantID \in ok]
         IN  FundLoop(torder, 1, merchantID,
                      [st EXCEPT !.calls = Append(@, call),
                                 !.results = Append(@, result)])

\* Mutant: the issuer is called but a success moves nothing.
PayMerchant_NeverFunds(merchantID, amount, ok, torder, st) ==
    IF amount <= 0 THEN st
    ELSE [st EXCEPT !.calls = Append(@, [MerchantID |-> merchantID,
                                         Amount |-> amount,
                                         err |-> IF merchantID \in ok
                                                 THEN "nil" ELSE "error"]),
                    !.results = Append(@, [MerchantID |-> merchantID,
                                           Amount |-> amount,
                                           Success |-> merchantID \in ok])]

\* One iteration of the range over the available map: the issuer (payoutFunc)
\* returns nil for the merchants in ok and an error for the others.  calls is
\* the issuer's side of the batch: the invocations it received, in order, each
\* with what it returned.
PayMerchant(merchantID, amount, ok, torder, st) ==
    IF amount <= 0 THEN st
    ELSE LET err == IF merchantID \in ok THEN "nil" ELSE "error"
             call == [MerchantID |-> merchantID, Amount |-> amount, err |-> err]
             result == [MerchantID |-> merchantID, Amount |-> amount,
                        Success |-> err = "nil"]
             called == [st EXCEPT !.calls = Append(@, call),
                                  !.results = Append(@, result)]
         IN  IF err = "nil" THEN FundLoop(torder, 1, merchantID, called) ELSE called

RECURSIVE PayoutLoop(_, _, _, _, _, _)
PayoutLoop(morder, i, available, ok, torder, st) ==
    IF i > Len(morder) THEN st
    ELSE PayoutLoop(morder, i + 1, available, ok, torder,
                    CHOOSE next \in {PayMerchant(morder[i], available[morder[i]],
                                                 ok, torder, s) : s \in {st}} : TRUE)

\* morder and torder are the orders in which the ranges over the available map
\* and over the transactions map visit them; ok is the issuer's behaviour.
ExecutePayoutBatch(ok, morder, torder) ==
    \E available \in {AvailableByMerchant(transactions)} :
      \E st \in {PayoutLoop(morder, 1, available, ok, torder,
                            [transactions |-> transactions,
                             entries |-> entries,
                             nextEntryID |-> nextEntryID,
                             calls |-> <<>>,
                             results |-> <<>>])} :
        /\ transactions' = st.transactions
        /\ entries' = st.entries
        /\ nextEntryID' = st.nextEntryID
        /\ lastCall' = [op |-> "ExecutePayoutBatch", calls |-> st.calls,
                        results |-> st.results]
        /\ UNCHANGED <<refIndex, processedFiles, settlementTotals>>

\* ------------------------------------------------------- GetMerchantBalance
addToAccount(bal, acct, amount) ==
    IF acct = AccountPending THEN [bal EXCEPT !.Pending = @ + amount]
    ELSE IF acct = AccountSettling THEN [bal EXCEPT !.Settling = @ + amount]
    ELSE IF acct = AccountAvailable THEN [bal EXCEPT !.Available = @ + amount]
    ELSE IF acct = AccountFunded THEN [bal EXCEPT !.Funded = @ + amount]
    ELSE bal

\* Mutant: debit entries are skipped, only credits are added up.
BalanceEntry_IgnoresDebits(bal, e, merchantID) ==
    IF e.MerchantID # merchantID THEN bal
    ELSE IF e.EntryType = Credit THEN addToAccount(bal, e.Account, e.Amount)
    ELSE bal

BalanceEntry(bal, e, merchantID) ==
    IF e.MerchantID # merchantID THEN bal
    ELSE IF e.EntryType = Credit THEN addToAccount(bal, e.Account, e.Amount)
    ELSE IF e.EntryType = Debit THEN addToAccount(bal, e.Account, 0 - e.Amount)
    ELSE bal

RECURSIVE BalanceLoop(_, _, _, _)
BalanceLoop(es, i, merchantID, bal) ==
    IF i > Len(es) THEN bal
    ELSE BalanceLoop(es, i + 1, merchantID,
                     CHOOSE next \in {BalanceEntry(b, es[i], merchantID) : b \in {bal}} : TRUE)

\* The balance GetMerchantBalance computes from the log es.
BalanceOf(es, merchantID) ==
    BalanceLoop(es, 1, merchantID,
                [MerchantID |-> merchantID, Pending |-> 0, Settling |-> 0,
                 Available |-> 0, Funded |-> 0])

GetMerchantBalance(merchantID) == BalanceOf(entries, merchantID)

\* A call of GetMerchantBalance: it ranges over l.entries, builds the balance
\* in a local and returns it; no field of the ledger is assigned.
GetMerchantBalanceCall(merchantID) ==
    /\ lastCall' = [op |-> "GetMerchantBalance", MerchantID |-> merchantID,
                    balance |-> GetMerchantBalance(merchantID)]
    /\ UNCHANGED ledger

\* The merchants a caller may ask the balance of: the known ones and one that
\* has no transaction.
BalanceInputs == UsedMerchants \cup LeastUnused(UsedMerchants, NumMerchants + 1)

Next ==
    \/ \E txn \in TransactionInputs : RecordAuthorization(txn)
    \/ \E file \in SettlementFile : ProcessSettlementFile(file)
    \/ \E amount \in DepositAmounts, settlementDate \in DepositDates :
          \E order \in Orders(DOMAIN transactions) :
             ReconcileBankDeposit(amount, settlementDate, order)
    \/ \E ok \in SUBSET DOMAIN AvailableByMerchant(transactions) :
          \E morder \in Orders(DOMAIN AvailableByMerchant(transactions)) :
             \E torder \in Orders(DOMAIN transactions) :
                ExecutePayoutBatch(ok, morder, torder)

Spec == Init /\ [][Next]_vars

\* ================================================================= claims
Merchants == 1..NumMerchants
Registered == DOMAIN transactions
EntriesOfJournal(j) == {i \in DOMAIN entries : entries[i].JournalID = j}
HasEntry(ref) == \E i \in DOMAIN entries : entries[i].Reference = ref
StatusRank(status) ==
    IF status = StatusPending THEN 0
    ELSE IF status = StatusSettling THEN 1
    ELSE IF status = StatusAvailable THEN 2
    ELSE 3
\* The sum of the amounts of merchant m's transactions whose status is status.
HeldIn(m, status) == SumAmounts(transactions, TxnsIn(transactions, m, status))
RECURSIVE SumOver(_, _)
SumOver(f, S) ==
    IF S = {} THEN 0
    ELSE LET x == CHOOSE y \in S : TRUE IN f[x] + SumOver(f, S \ {x})
\* A settlement row matched a transaction with an amount other than the
\* transaction's own.
MismatchedSettlement ==
    \E i \in DOMAIN entries :
        /\ entries[i].Reference = "settlement"
        /\ entries[i].Amount # transactions[entries[i].TransactionID].Amount

\* C1: every journal id in the entry log is carried by exactly two entries, one
\* debit and one credit, and the two have the same amount.
C1_JournalPairs ==
    \A j \in {entries[i].JournalID : i \in DOMAIN entries} :
        LET is == EntriesOfJournal(j) IN
        /\ Cardinality(is) = 2
        /\ Cardinality({i \in is : entries[i].EntryType = Debit}) = 1
        /\ Cardinality({i \in is : entries[i].EntryType = Credit}) = 1
        /\ \A a, b \in is : entries[a].Amount = entries[b].Amount

\* C1 witness: the log holds pairs written by all four operations.
C1_Witness ==
    /\ HasEntry("authorization") /\ HasEntry("settlement")
    /\ HasEntry("bank_reconciliation") /\ HasEntry("payout")
    /\ Len(entries) >= 10

\* C2: in every step each registered transaction stays registered and its
\* status stays the same or advances by exactly one step along
\* Pending -> Settling -> Available -> Funded.
C2_StatusLineage ==
    [][\A id \in DOMAIN transactions :
          /\ id \in DOMAIN transactions'
          /\ \/ transactions'[id].Status = transactions[id].Status
             \/ StatusRank(transactions'[id].Status) =
                    StatusRank(transactions[id].Status) + 1]_vars

\* C2 witness: a transaction has gone all the way to Funded while another one
\* of the same merchant is still Pending.
C2_Witness ==
    \E a, b \in Registered :
        /\ transactions[a].Status = StatusFunded
        /\ transactions[b].Status = StatusPending
        /\ transactions[a].MerchantID = transactions[b].MerchantID

\* C3: conservation: the amounts of all transactions that are not Funded add up
\* to the Pending + Settling + Available balances of all merchants.
C3_Conservation ==
    SumAmounts(transactions,
               {id \in Registered : transactions[id].Status # StatusFunded})
    = SumOver([m \in Merchants |->
                  GetMerchantBalance(m).Pending + GetMerchantBalance(m).Settling
                      + GetMerchantBalance(m).Available],
              Merchants)

\* C3 witness: a row settled a transaction with another amount than the
\* authorized one, one transaction is Funded and another one is not.
C3_Witness ==
    /\ MismatchedSettlement
    /\ \E a, b \in Registered :
          /\ transactions[a].Status = StatusFunded
          /\ transactions[b].Status \in {StatusSettling, StatusAvailable}

C5_ZeroAfterLifecycle ==
    (Registered # {} /\ \A id \in Registered : transactions[id].Status = StatusFunded)
        => \A m \in Merchants :
              LET bal == GetMerchantBalance(m) IN
              bal.Pending = 0 /\ bal.Settling = 0 /\ bal.Available = 0 /\ bal.Funded = 0

\* C6: RecordAuthorization with a transaction id that is already registered
\* returns an error and leaves the whole ledger state unchanged.
C6_DuplicateAuthorization ==
    [][(lastCall'.op = "RecordAuthorization"
            /\ lastCall'.TransactionID \in DOMAIN transactions)
        => (lastCall'.err # "nil" /\ UNCHANGED ledger)]_vars

\* C6 witness: a duplicate authorization was refused for a transaction that
\* has already left Pending.
C6_Witness ==
    /\ lastCall.op = "RecordAuthorization"
    /\ lastCall.err = "already exists"
    /\ transactions[lastCall.TransactionID].Status # StatusPending

\* C7: ProcessSettlementFile with an already processed file id succeeds with
\* zero matched, unmatched and already-settled counts and leaves the whole
\* ledger state unchanged.
C7_ReplayedFile ==
    [][(lastCall'.op = "ProcessSettlementFile" /\ lastCall'.FileID \in processedFiles)
        => /\ lastCall'.err = "nil"
           /\ lastCall'.result.Matched = 0
           /\ lastCall'.result.Unmatched = 0
           /\ lastCall'.result.AlreadySettled = 0
           /\ lastCall'.result.UnmatchedRows = <<>>
           /\ UNCHANGED ledger]_vars

\* C7 witness: a processed file id was presented again while a Pending
\* transaction was indexed, so that a row of the file could have matched.
C7_Witness ==
    /\ lastCall.op = "ProcessSettlementFile"
    /\ lastCall.FileID \in processedFiles
    /\ ~lastCall.processed
    /\ \E r \in DOMAIN refIndex : transactions[refIndex[r]].Status = StatusPending

\* C8: ReconcileBankDeposit with an amount other than the expected total of the
\* date fails, no transaction changes status and no entry is appended.
C8_DepositMismatch ==
    [][(/\ lastCall'.op = "ReconcileBankDeposit"
        /\ lastCall'.settlementDate \in DOMAIN settlementTotals
        /\ lastCall'.amount # settlementTotals[lastCall'.settlementDate])
        => (lastCall'.err # "nil" /\ UNCHANGED ledger)]_vars

\* C8 witness: a mismatching deposit was refused while a transaction was
\* Settling for that date.
C8_Witness ==
    /\ lastCall.op = "ReconcileBankDeposit"
    /\ lastCall.err = "deposit mismatch"
    /\ \E id \in Registered :
          /\ transactions[id].Status = StatusSettling
          /\ transactions[id].SettlementDate = lastCall.settlementDate

\* The entries a step appended.
Appended == {i \in DOMAIN entries' : i > Len(entries)}

\* C9: in one ExecutePayoutBatch call a merchant whose payout failed keeps all
\* its transactions as they were and gets no entry, and a merchant whose payout
\* succeeded has all its Available transactions moved to Funded.
C9_PayoutIsolation ==
    [][lastCall'.op = "ExecutePayoutBatch" =>
         \A k \in DOMAIN lastCall'.results :
            LET r == lastCall'.results[k] IN
            /\ ~r.Success =>
                  /\ \A id \in DOMAIN transactions :
                        transactions[id].MerchantID = r.MerchantID
                            => transactions'[id] = transactions[id]
                  /\ \A i \in Appended : entries'[i].MerchantID # r.MerchantID
                  /\ BalanceOf(entries', r.MerchantID).Available
                         = BalanceOf(entries, r.MerchantID).Available
            /\ r.Success =>
                  \A id \in DOMAIN transactions :
                     (transactions[id].MerchantID = r.MerchantID
                         /\ transactions[id].Status = StatusAvailable)
                        => transactions'[id].Status = StatusFunded]_vars

\* C9 witness: one batch in which the payout of one merchant failed and the
\* payout of another merchant succeeded.
C9_Witness ==
    /\ lastCall.op = "ExecutePayoutBatch"
    /\ \E a, b \in DOMAIN lastCall.results :
          ~lastCall.results[a].Success /\ lastCall.results[b].Success

\* The rows of a sequence whose processor reference is not indexed, in order.
UnindexedRows(rows) ==
    SelectSeq(rows, LAMBDA r : r.ProcessorRefID \notin DOMAIN refIndex)
\* The transactions that the rows of a sequence reference and that are Pending.
PendingReferenced(rows) ==
    {refIndex[rows[i].ProcessorRefID] :
        i \in {k \in DOMAIN rows :
                  /\ rows[k].ProcessorRefID \in DOMAIN refIndex
                  /\ transactions[refIndex[rows[k].ProcessorRefID]].Status
                         = StatusPending}}
\* The entries of transaction id that a step appended.
AppendedFor(id) == {i \in Appended : entries'[i].TransactionID = id}

\* C11: when a new file is processed, UnmatchedRows is exactly the rows whose
\* reference is not indexed, in file order, Unmatched is their number, and every
\* Pending transaction referenced by a row of the file, before or after an
\* unmatched row, is moved to Settling and counted once in Matched.
C11_UnmatchedRows ==
    [][(lastCall'.op = "ProcessSettlementFile" /\ lastCall'.processed) =>
         LET rows == lastCall'.Rows IN
         /\ lastCall'.result.UnmatchedRows = UnindexedRows(rows)
         /\ lastCall'.result.Unmatched = Len(UnindexedRows(rows))
         /\ \A id \in PendingReferenced(rows) :
               /\ transactions'[id].Status = StatusSettling
               /\ transactions'[id].SettlementDate = lastCall'.Date
         /\ lastCall'.result.Matched = Cardinality(PendingReferenced(rows))]_vars

\* C11 witness: a file whose first row is unmatched and whose second row
\* settled a transaction.
C11_Witness ==
    /\ lastCall.op = "ProcessSettlementFile"
    /\ lastCall.processed
    /\ Len(lastCall.Rows) = 2
    /\ lastCall.Rows[1].ProcessorRefID \notin DOMAIN refIndex
    /\ lastCall.result.UnmatchedRows = <<lastCall.Rows[1]>>
    /\ lastCall.result.Matched = 1
    /\ lastCall.Rows[2].ProcessorRefID \in DOMAIN refIndex
    /\ transactions[refIndex[lastCall.Rows[2].ProcessorRefID]].Status = StatusSettling

\* The transactions that are Settling with settlement date date.
SettlingFor(date) ==
    {id \in DOMAIN transactions :
        /\ transactions[id].Status = StatusSettling
        /\ transactions[id].SettlementDate = date}

\* C12: a successful ReconcileBankDeposit moves exactly the transactions that
\* are Settling for the given date to Available, appends for each of them one
\* journal pair debit Settling / credit Available with the transaction's
\* amount, and leaves every other transaction as it was and without a new entry.
C12_ReconcileMoves ==
    [][(lastCall'.op = "ReconcileBankDeposit" /\ lastCall'.err = "nil") =>
         LET moved == SettlingFor(lastCall'.settlementDate) IN
         /\ DOMAIN transactions' = DOMAIN transactions
         /\ \A id \in moved :
               /\ transactions'[id] =
                      [transactions[id] EXCEPT !.Status = StatusAvailable]
               /\ \E d, c \in AppendedFor(id) :
                     /\ AppendedFor(id) = {d, c}
                     /\ c = d + 1
                     /\ entries'[d].JournalID = entries'[c].JournalID
                     /\ entries'[d].EntryType = Debit
                     /\ entries'[d].Account = AccountSettling
                     /\ entries'[c].EntryType = Credit
                     /\ entries'[c].Account = AccountAvailable
                     /\ entries'[d].Amount = transactions[id].Amount
                     /\ entries'[c].Amount = transactions[id].Amount
                     /\ entries'[d].Reference = "bank_reconciliation"
                     /\ entries'[c].Reference = "bank_reconciliation"
         /\ \A id \in DOMAIN transactions \ moved :
               /\ transactions'[id] = transactions[id]
               /\ AppendedFor(id) = {}
         /\ Len(entries') = Len(entries) + 2 * Cardinality(moved)
         /\ SubSeq(entries', 1, Len(entries)) = entries]_vars

\* C12 witness: a reconciliation has just moved one transaction to Available
\* while another one, settled for another date, stays Settling.
C12_Witness ==
    /\ lastCall.op = "ReconcileBankDeposit"
    /\ lastCall.err = "nil"
    /\ entries # <<>>
    /\ entries[Len(entries)].Reference = "bank_reconciliation"
    /\ \E a, b \in Registered :
          /\ entries[Len(entries)].TransactionID = a
          /\ transactions[a].Status = StatusAvailable
          /\ transactions[a].SettlementDate = lastCall.settlementDate
          /\ transactions[b].Status = StatusSettling
          /\ transactions[b].SettlementDate # lastCall.settlementDate

\* C13: ReconcileBankDeposit for a date without a recorded settlement total
\* fails and leaves the whole ledger state unchanged.
C13_NoSettlementFound ==
    [][(/\ lastCall'.op = "ReconcileBankDeposit"
        /\ lastCall'.settlementDate \notin DOMAIN settlementTotals)
        => (lastCall'.err # "nil" /\ UNCHANGED ledger)]_vars

\* C13 witness: a deposit for a date without a file was refused, although its
\* amount is the total of another date for which a transaction is Settling.
C13_Witness ==
    /\ lastCall.op = "ReconcileBankDeposit"
    /\ lastCall.err = "no settlement found"
    /\ lastCall.settlementDate \notin DOMAIN settlementTotals
    /\ \E id \in Registered :
          /\ transactions[id].Status = StatusSettling
          /\ transactions[id].SettlementDate \in DOMAIN settlementTotals
          /\ settlementTotals[transactions[id].SettlementDate] = lastCall.amount

\* C14: in one ExecutePayoutBatch call the issuer is invoked at most once per
\* merchant, only for merchants whose Available transactions at the start of
\* the batch sum to a strictly positive amount, with exactly that sum; and the
\* returned list holds one result per invocation, in the same order, with the
\* invocation's merchant id and amount and Success exactly when the issuer
\* returned no error.
C14_OneCallPerMerchant ==
    [][lastCall'.op = "ExecutePayoutBatch" =>
         LET calls == lastCall'.calls
             results == lastCall'.results
         IN
         /\ \A a, b \in DOMAIN calls :
               a # b => calls[a].MerchantID # calls[b].MerchantID
         /\ \A k \in DOMAIN calls :
               /\ HeldIn(calls[k].MerchantID, StatusAvailable) > 0
               /\ calls[k].Amount = HeldIn(calls[k].MerchantID, StatusAvailable)
         /\ Len(results) = Len(calls)
         /\ \A k \in DOMAIN calls :
               /\ results[k].MerchantID = calls[k].MerchantID
               /\ results[k].Amount = calls[k].Amount
               /\ results[k].Success = (calls[k].err = "nil")]_vars

\* C14 witness: a batch invoked the issuer once for a merchant that also has a
\* transaction that was not Available, with the amount of the Available one
\* only, and the issuer succeeded.
C14_Witness ==
    /\ lastCall.op = "ExecutePayoutBatch"
    /\ Len(lastCall.calls) = 1
    /\ lastCall.results[1].Success
    /\ \E a, b \in Registered :
          /\ transactions[a].MerchantID = lastCall.calls[1].MerchantID
          /\ transactions[b].MerchantID = lastCall.calls[1].MerchantID
          /\ transactions[a].Status = StatusFunded
          /\ transactions[b].Status \in {StatusPending, StatusSettling}
          /\ lastCall.calls[1].Amount = transactions[a].Amount

\* C15 as stated: no two registered transactions share a processor reference
\* id, and the index maps the reference of every registered transaction to
\* that transaction.
C15_UniqueProcessorRef ==
    /\ \A a, b \in Registered :
          a # b => transactions[a].ProcessorRefID # transactions[b].ProcessorRefID
    /\ \A id \in Registered :
          /\ transactions[id].ProcessorRefID \in DOMAIN refIndex
          /\ refIndex[transactions[id].ProcessorRefID] = id

\* C16 as stated: every entry of the log has a strictly positive amount.
C16_PositiveAmounts ==
    \A i \in DOMAIN entries : entries[i].Amount > 0

\* The rows of a sequence that are counted as already settled: the reference is
\* indexed and its transaction is not Pending, or was settled by an earlier row
\* of the same sequence.
AlreadySettledRows(rows) ==
    {i \in DOMAIN rows :
        /\ rows[i].ProcessorRefID \in DOMAIN refIndex
        /\ \/ transactions[refIndex[rows[i].ProcessorRefID]].Status # StatusPending
           \/ \E j \in 1..(i - 1) : rows[j].ProcessorRefID = rows[i].ProcessorRefID}
\* The entries of transaction id in the log written by a settlement row.
SettlementEntries(id) ==
    {i \in DOMAIN entries :
        entries[i].TransactionID = id /\ entries[i].Reference = "settlement"}

\* C17: when a new file is processed, a row that references a transaction that
\* is not Pending is counted in AlreadySettled, appends no entry and leaves the
\* transaction (status and settlement date) as it was; and in every state a
\* transaction has at most one settlement journal pair, however many files
\* repeat its row.
C17_AlreadySettled ==
    /\ [](\A id \in Registered : Cardinality(SettlementEntries(id)) <= 2)
    /\ [][(lastCall'.op = "ProcessSettlementFile" /\ lastCall'.processed) =>
            LET rows == lastCall'.Rows IN
            /\ lastCall'.result.AlreadySettled = Cardinality(AlreadySettledRows(rows))
            /\ \A i \in DOMAIN rows :
                  (/\ rows[i].ProcessorRefID \in DOMAIN refIndex
                   /\ transactions[refIndex[rows[i].ProcessorRefID]].Status
                          # StatusPending)
                  => /\ transactions'[refIndex[rows[i].ProcessorRefID]]
                            = transactions[refIndex[rows[i].ProcessorRefID]]
                     /\ AppendedFor(refIndex[rows[i].ProcessorRefID]) = {}]_vars

\* C17 witness: a second file has repeated the row of a transaction that an
\* earlier file settled and a deposit made Available; the row was counted as
\* already settled.
C17_Witness ==
    /\ lastCall.op = "ProcessSettlementFile"
    /\ lastCall.processed
    /\ Cardinality(processedFiles) = 2
    /\ lastCall.result.AlreadySettled >= 1
    /\ \E i \in DOMAIN lastCall.Rows :
          /\ lastCall.Rows[i].ProcessorRefID \in DOMAIN refIndex
          /\ transactions[refIndex[lastCall.Rows[i].ProcessorRefID]].Status
                 = StatusAvailable
          /\ Cardinality(SettlementEntries(refIndex[lastCall.Rows[i].ProcessorRefID])) = 2

\* The sum of the amounts of the rows of a sequence.
RowsTotal(rows) == SumOver([i \in DOMAIN rows |-> rows[i].Amount], DOMAIN rows)

\* C18: processing a new file sets the expected total of the file's date to
\* the sum of the amounts of all its rows, replacing an earlier total of that
\* date and leaving the totals of other dates alone; no other step changes a
\* total; and ReconcileBankDeposit for a date with a total succeeds exactly
\* when the amount equals that total.
C18_SettlementTotal ==
    [][/\ IF lastCall'.op = "ProcessSettlementFile" /\ lastCall'.processed
          THEN /\ DOMAIN settlementTotals' =
                      DOMAIN settlementTotals \cup {lastCall'.Date}
               /\ settlementTotals'[lastCall'.Date] = RowsTotal(lastCall'.Rows)
               /\ \A d \in DOMAIN settlementTotals \ {lastCall'.Date} :
                     settlementTotals'[d] = settlementTotals[d]
          ELSE settlementTotals' = settlementTotals
       /\ (/\ lastCall'.op = "ReconcileBankDeposit"
           /\ lastCall'.settlementDate \in DOMAIN settlementTotals)
          => (lastCall'.err = "nil"
                 <=> lastCall'.amount = settlementTotals[lastCall'.settlementDate])
      ]_vars

\* C18 witness: a second file for a date whose first file settled a
\* transaction with amount 1; the second file matched nothing, holds an
\* unmatched row, and the total of the date is now the sum of its rows, 1.
C18_Witness ==
    /\ lastCall.op = "ProcessSettlementFile"
    /\ lastCall.processed
    /\ Cardinality(processedFiles) = 2
    /\ lastCall.result.Matched = 0
    /\ lastCall.result.Unmatched >= 1
    /\ RowsTotal(lastCall.Rows) = 1
    /\ settlementTotals[lastCall.Date] = 1
    /\ \E id \in Registered :
          /\ transactions[id].SettlementDate = lastCall.Date
          /\ \E i \in SettlementEntries(id) : entries[i].Amount = 1

\* The entries of transaction id, in log order.
EntriesOf(id) == SelectSeq(entries, LAMBDA e : e.TransactionID = id)
\* The debit and credit accounts of the journal pair of each step of the
\* lineage: authorization, settlement, reconciliation, payout.
Lineage ==
    << <<AccountCardProcessor, AccountPending>>,
       <<AccountPending, AccountSettling>>,
       <<AccountSettling, AccountAvailable>>,
       <<AccountAvailable, AccountFunded>> >>

C21_AppendOnlyLog ==
    /\ [][/\ Len(entries') >= Len(entries)
          /\ SubSeq(entries', 1, Len(entries)) = entries]_vars
    /\ [](\A i, j \in DOMAIN entries : i < j => entries[i].ID < entries[j].ID)
    /\ [](\A j \in {entries[i].JournalID : i \in DOMAIN entries} :
             \E d \in DOMAIN entries :
                /\ EntriesOfJournal(j) = {d, d + 1}
                /\ entries[d].EntryType = Debit
                /\ entries[d + 1].EntryType = Credit)

\* C21 witness: the log of two transactions that both went through all four
\* operations, eight pairs.
C21_Witness ==
    /\ Len(entries) = 16
    /\ HasEntry("authorization") /\ HasEntry("settlement")
    /\ HasEntry("bank_reconciliation") /\ HasEntry("payout")

\* C22: a ReconcileBankDeposit call that comes directly after a successful call
\* with the same amount and date succeeds again, appends no entry and changes
\* no transaction.
C22_SecondReconcile ==
    [][(/\ lastCall'.op = "ReconcileBankDeposit"
        /\ Repeated(lastCall'.amount, lastCall'.settlementDate))
        => /\ lastCall'.err = "nil"
           /\ entries' = entries
           /\ transactions' = transactions]_vars

\* C22 witness: the second of two equal calls has returned; the first one had
\* moved a transaction to Available, its pair is the last of the log.
C22_Witness ==
    /\ lastCall.op = "ReconcileBankDeposit"
    /\ lastCall.repeat
    /\ lastCall.err = "nil"
    /\ entries # <<>>
    /\ entries[Len(entries)].Reference = "bank_reconciliation"
    /\ \E id \in Registered :
          /\ entries[Len(entries)].TransactionID = id
          /\ transactions[id].Status = StatusAvailable
          /\ transactions[id].SettlementDate = lastCall.settlementDate

\* C23 as stated: each of the four balances of every merchant is greater than
\* or equal to zero.
C23_NonNegativeBalances ==
    \A m \in Merchants :
        LET bal == GetMerchantBalance(m) IN
        bal.Pending >= 0 /\ bal.Settling >= 0 /\ bal.Available >= 0 /\ bal.Funded >= 0

\* ---------------------------------------------------------------- fairness
\* The batch is run with the issuer succeeding for merchant m.
PayoutSucceedsFor(m) ==
    /\ m \in DOMAIN AvailableByMerchant(transactions)
    /\ \E ok \in SUBSET DOMAIN AvailableByMerchant(transactions) :
          /\ m \in ok
          /\ \E morder \in Orders(DOMAIN AvailableByMerchant(transactions)) :
                \E torder \in Orders(DOMAIN transactions) :
                   ExecutePayoutBatch(ok, morder, torder)

\* The runs in which every call but the issuer's succeeds: authorizations are
\* valid and new, files are new and their rows carry the reference and the
\* amount of a registered transaction, deposits equal the expected total.  The
\* issuer still fails or succeeds as it likes.
AcceptedTransactionInputs ==
    {txn \in TransactionInputs : AuthorizationError(txn) = "nil"}
AcceptedFiles ==
    {file \in SettlementFile :
        /\ file.FileID # EMPTY
        /\ ~AlreadyProcessed(file.FileID)
        /\ file.Rows # <<>>
        /\ \A i \in DOMAIN file.Rows :
              /\ file.Rows[i].ProcessorRefID \in DOMAIN refIndex
              /\ file.Rows[i].Amount =
                     transactions[refIndex[file.Rows[i].ProcessorRefID]].Amount}

AcceptedNext ==
    \/ \E txn \in AcceptedTransactionInputs : RecordAuthorization(txn)
    \/ \E file \in AcceptedFiles : ProcessSettlementFile(file)
    \/ \E settlementDate \in DOMAIN settlementTotals :
          \E order \in Orders(DOMAIN transactions) :
             ReconcileBankDeposit(settlementTotals[settlementDate],
                                  settlementDate, order)
    \/ \E ok \in SUBSET DOMAIN AvailableByMerchant(transactions) :
          \E morder \in Orders(DOMAIN AvailableByMerchant(transactions)) :
             \E torder \in Orders(DOMAIN transactions) :
                ExecutePayoutBatch(ok, morder, torder)

\* The engine has no scheduler of its own; the batch being invoked again and
\* again, and the issuer eventually succeeding for each merchant, is the
\* caller's part.
LiveSpec ==
    Init /\ [][AcceptedNext]_vars /\ \A m \in Merchants : WF_vars(PayoutSucceedsFor(m))

\* C10: if the batch keeps being run and the issuer eventually succeeds for
\* each merchant, every Available transaction eventually becomes Funded and
\* every positive Available balance eventually becomes 0.
C10_RetryPaysOut ==
    /\ \A id \in 1..MaxTxn :
          (id \in DOMAIN transactions /\ transactions[id].Status = StatusAvailable)
              ~> (id \in DOMAIN transactions /\ transactions[id].Status = StatusFunded)
    /\ \A m \in Merchants :
          (GetMerchantBalance(m).Available > 0) ~> (GetMerchantBalance(m).Available = 0)

\* C10 witness: the payout of a merchant has just failed and its transaction
\* is still Available, waiting for a later batch.
C10_Witness ==
    /\ lastCall.op = "ExecutePayoutBatch"
    /\ \E k \in DOMAIN lastCall.results :
          /\ ~lastCall.results[k].Success
          /\ GetMerchantBalance(lastCall.results[k].MerchantID).Available > 0
          /\ \E id \in Registered :
                /\ transactions[id].MerchantID = lastCall.results[k].MerchantID
                /\ transactions[id].Status = StatusAvailable

\* ------------------------------------------------------------ balance query
\* The runs of the accepted calls in which the balance of a merchant is asked
\* for between any two of them.
BalanceNext ==
    \/ AcceptedNext
    \/ \E merchantID \in BalanceInputs : GetMerchantBalanceCall(merchantID)

BalanceSpec == Init /\ [][BalanceNext]_vars

\* The sum of the amounts of the entries of type entryType that merchant m has
\* on account acct.
EntrySum(m, acct, entryType) ==
    LET is == {i \in DOMAIN entries :
                 /\ entries[i].MerchantID = m
                 /\ entries[i].Account = acct
                 /\ entries[i].EntryType = entryType}
    IN  SumOver([i \in is |-> entries[i].Amount], is)

\* C19: GetMerchantBalance(m) returns, for each of Pending, Settling, Available
\* and Funded, the sum of the credit amounts minus the sum of the debit amounts
\* of merchant m's entries on that account, and the call leaves the whole
\* ledger state unchanged.
C19_BalanceIsReplay ==
    [][lastCall'.op = "GetMerchantBalance" =>
         LET m == lastCall'.MerchantID IN
         /\ lastCall'.balance =
               [MerchantID |-> m,
                Pending |-> EntrySum(m, AccountPending, Credit)
                               - EntrySum(m, AccountPending, Debit),
                Settling |-> EntrySum(m, AccountSettling, Credit)
                                - EntrySum(m, AccountSettling, Debit),
                Available |-> EntrySum(m, AccountAvailable, Credit)
                                 - EntrySum(m, AccountAvailable, Debit),
                Funded |-> EntrySum(m, AccountFunded, Credit)
                              - EntrySum(m, AccountFunded, Debit)]
         /\ UNCHANGED ledger]_vars

\* C19 witness: the balance was asked of a merchant with one Funded and one
\* Pending transaction, whose entries on CardProcessor are left out.
C19_Witness ==
    /\ lastCall.op = "GetMerchantBalance"
    /\ lastCall.balance.Funded = 1
    /\ lastCall.balance.Pending = 1
    /\ lastCall.balance.Settling = 0
    /\ lastCall.balance.Available = 0
    /\ EntrySum(lastCall.MerchantID, AccountCardProcessor, Debit) = 2
====
